---- MODULE Spec2Model ----
(***************************************************************************)
(* A model of the Model / Collection layer of the Cytomine python client   *)
(* (src/cytomine/models).  The operations are modelled in groups, each     *)
(* with its own specification over the shared variables:                   *)
(*   Spec      entity CRUD (Model.fetch/save/update/delete and overrides)  *)
(*   SpecJson  Model.populate followed by Model.to_json                    *)
(*   SpecSave  Collection.save (chunked, through the worker pool)          *)
(*   SpecFetch Collection.fetch / fetch_next_page / fetch_previous_page    *)
(*   SpecSeq   the MutableSequence operations of Collection                *)
(*   SpecUri   Collection.uri                                              *)
(*   SpecDomain  domain-scoped entities and collections and their owner    *)
(*   SpecRejected  the operations that are rejected by design              *)
(*   SpecProperty  Property and PropertyCollection around one owner        *)
(*   SpecCopy  the collections made by + and by filter                     *)
(* Python's None is the string "None"; ids and field values are strings.   *)
(***************************************************************************)
EXTENDS Integers, Sequences, FiniteSets, TLC

VARIABLES
  ent,      \* the entity: [kind, id, key1, key2, name]
  op,       \* the last entity operation called: [name, id, attrs, keys]
  calls,    \* the transport calls made by the last entity operation
  outcome,  \* how the last entity operation ended
  jattrs,   \* populate's argument: the mapping, as its (key, value) items in iteration order
  jfields,  \* the entity's __dict__ (a function from field names to values)
  jout,     \* the object to_json serialises
  jpc,      \* position in the populate / to_json scenario
  sdata,    \* Collection.save: the elements of the collection being saved
  scls,     \* the class of the collection being saved
  sargs,    \* the arguments of the save call: [chunk, n_workers]
  spc,      \* where the save call is: "idle", "pool", "returned" or "raised"
  spool,    \* the worker pool: [size, ranges, task, flag, sent, order]
  sres,     \* what save hands to its caller: [results, added, failed, ret, posts]
  fcol,     \* Collection.fetch: the collection [kind, allowed, filters, max, offset, total,
            \*   total_pages, data]
  fsrv,     \* the number of resources the server holds (the "size" of its answers)
  fop,      \* the fetch operation in progress or last called: [name, max, fresh, from]
            \*   (from is the offset the collection had when it was called)
  fpc,      \* where that operation is: "idle", "loop", "returned" or "raised"
  fnpages,  \* fetch's local n_pages
  freqs,    \* the get_collection requests the operation has sent: [offset, max, append,
            \* total (the total known when it was sent), uri]
  fgot,     \* the number of elements the server returned to the operation
  qa,       \* sequence operations: the collection operated on, [cls, model, data]
  qb,       \* the other operand of + and +=
  qsum,     \* the collection a + b returned, when the last operation was a + b
  qop,      \* the last sequence operation: [name, wrong, outcome]
  qfil,     \* the filter dicts (_filters) as objects: [a, b, own |-> the keys set in the
            \* dict of qa, of qb, and in a dict of the result alone; ref |-> the dict
            \* that the result's _filters names: "a", "own", or None without a result]
  ucol,     \* Collection.uri: the collection [kind, allowed, filters]
  uarg,     \* the without_filters argument of the uri call
  ures,     \* the uri call: [pc, outcome, uri]
  owner,    \* domain scope: the owner object, [class_, id]
  dom,      \* the domain-scoped entity or collection built around the owner:
            \*   [kind, domainClassName, domainIdent, id]
  dop,      \* the last operation of the domain scope: [name, outcome, calls, uri]
  pown,     \* properties: the owner object, [class_, id, annotation]
  prop,     \* the Property built around the owner (NoDom before it is built)
  pcol,     \* the PropertyCollection built around the owner (NoDom before it is built)
  pop       \* the last operation on them: [name, outcome, calls, uri], uri being the
            \* URI the transport addressed

entityVars == <<ent, op, calls, outcome>>
jsonVars == <<jattrs, jfields, jout, jpc>>
saveVars == <<sdata, scls, sargs, spc, spool, sres>>
fetchVars == <<fcol, fsrv, fop, fpc, fnpages, freqs, fgot>>
seqVars == <<qa, qb, qsum, qop, qfil>>
uriVars == <<ucol, uarg, ures>>
domainVars == <<owner, dom, dop>>
propertyVars == <<pown, prop, pcol, pop>>
vars == <<entityVars, jsonVars, saveVars, fetchVars, seqVars, uriVars, domainVars, propertyVars>>
notEntityVars == <<jsonVars, saveVars, fetchVars, seqVars, uriVars, domainVars, propertyVars>>
notJsonVars == <<entityVars, saveVars, fetchVars, seqVars, uriVars, domainVars, propertyVars>>
notSaveVars == <<entityVars, jsonVars, fetchVars, seqVars, uriVars, domainVars, propertyVars>>
notFetchVars == <<entityVars, jsonVars, saveVars, seqVars, uriVars, domainVars, propertyVars>>
notSeqVars == <<entityVars, jsonVars, saveVars, fetchVars, uriVars, domainVars, propertyVars>>
notUriVars == <<entityVars, jsonVars, saveVars, fetchVars, seqVars, domainVars, propertyVars>>
notDomainVars == <<entityVars, jsonVars, saveVars, fetchVars, seqVars, uriVars, propertyVars>>
notPropertyVars == <<entityVars, jsonVars, saveVars, fetchVars, seqVars, uriVars, domainVars>>

None == "None"

\* an owner that was never populated has no class_ attribute
Unset == "<unset>"

(***************************************************************************)
(* Entities (model.py, user.py, ontology.py, property.py)                  *)
(***************************************************************************)

\* "Project" stands for every kind that inherits fetch/save/update/delete from
\* Model unchanged (Project, Ontology, Term, User, Group, Tag, images ...).
PlainKinds == {"Project", "CurrentUser"}
CompositeKinds == {"UserGroup", "UserRole", "RelationTerm"}
EntityKinds == PlainKinds \cup CompositeKinds \cup {"Role", "AttachedFile", "Description"}

\* ids a caller passes or the server assigns
Ids == {"7", "8"}
IdArgs == Ids \cup {None}
KeyVals == {"1", None}
\* the attributes given to update: none, or a value for the field name
AttrArgs == {None, "n"}

\* what the transport answers: success or failure, and the id the server reports
Responses == [ok : BOOLEAN, id : Ids]

\* Model.__init__ and the constructors of the subclasses
NewEntity(kind, a1, a2) ==
  [kind |-> kind,
   id   |-> IF kind = "CurrentUser" THEN "0" ELSE None,
   key1 |-> IF kind \in CompositeKinds THEN a1 ELSE None,
   key2 |-> IF kind \in CompositeKinds THEN a2 ELSE None,
   name |-> None]

is_new(e) == e.id = None

\* the result of an operation: the entity afterwards, the transport calls, the outcome
Result(e, cs, out) == [ent |-> e, calls |-> cs, outcome |-> out]

Raise(e, err) == Result(e, <<>>, err)

\* Transport (cytomine/cytomine.py): a successful create populates the entity with
\* the server's answer (its id); a failure leaves it as it was.
post_model(e, resp) ==
  IF resp.ok THEN Result([e EXCEPT !.id = resp.id], <<"post_model">>, "ok")
             ELSE Result(e, <<"post_model">>, "failed")

put_model(e, resp) ==
  Result(e, <<"put_model">>, IF resp.ok THEN "ok" ELSE "failed")

get_model(e, resp) ==
  Result(e, <<"get_model">>, IF resp.ok THEN "ok" ELSE "failed")

delete_model(e, resp) ==
  Result(e, <<"delete_model">>, IF resp.ok THEN "ok" ELSE "failed")

upload_file(e, resp) ==
  IF resp.ok THEN Result([e EXCEPT !.id = resp.id], <<"upload_file">>, "ok")
             ELSE Result(e, <<"upload_file">>, "failed")

\* Model.fetch
Model_fetch(e, id, resp) ==
  IF e.id = None /\ id = None
    THEN Raise(e, "ValueError")
    ELSE get_model(IF id # None THEN [e EXCEPT !.id = id] ELSE e, resp)

\* Description.fetch: no validation
Description_fetch(e, id, resp) ==
  get_model(IF id # None THEN [e EXCEPT !.id = id] ELSE e, resp)

\* UserGroup.fetch, UserRole.fetch, RelationTerm.fetch: the id is set to -1 first
Composite_fetch(e, a1, a2, resp) ==
  LET e1 == [e EXCEPT !.id = "-1"] IN
  IF e1.key1 = None /\ a1 = None THEN Raise(e1, "ValueError")
  ELSE IF e1.key2 = None /\ a2 = None THEN Raise(e1, "ValueError")
  ELSE get_model([e1 EXCEPT !.key1 = IF a1 # None THEN a1 ELSE @,
                            !.key2 = IF a2 # None THEN a2 ELSE @], resp)

\* Model.update: the attributes are populated before the transport is called
Model_update_PutFirst(e, id, attrs, resp) ==
  IF e.id = None /\ id = None
    THEN Raise(e, "ValueError")
    ELSE LET r == put_model(IF id # None THEN [e EXCEPT !.id = id] ELSE e, resp)
         IN IF attrs # None /\ resp.ok THEN Result([r.ent EXCEPT !.name = attrs], r.calls, r.outcome)
                                       ELSE r

Model_update(e, id, attrs, resp) ==
  IF e.id = None /\ id = None
    THEN Raise(e, "ValueError")
    ELSE LET e1 == IF id # None THEN [e EXCEPT !.id = id] ELSE e
             e2 == IF attrs # None THEN [e1 EXCEPT !.name = attrs] ELSE e1
         IN put_model(e2, resp)

\* AttachedFile.upload
AttachedFile_upload(e, resp) == upload_file(e, resp)

\* update, as each kind defines it
Update_RoleOnly(e, id, attrs, resp) ==
  CASE e.kind = "Role" -> Raise(e, "NotImplementedError")
    [] e.kind = "AttachedFile" -> AttachedFile_upload(e, resp)
    [] OTHER -> Model_update(e, id, attrs, resp)

Update(e, id, attrs, resp) ==
  CASE e.kind \in CompositeKinds \cup {"Role"} -> Raise(e, "NotImplementedError")
    [] e.kind = "AttachedFile" -> AttachedFile_upload(e, resp)
    [] OTHER -> Model_update(e, id, attrs, resp)

\* Model.save
Model_save_bothcalls(e, resp) ==
  IF e.id = None
    THEN post_model(e, resp)
    ELSE LET r == post_model(e, resp) IN
         Result(e, r.calls \o Update(e, None, None, resp).calls, r.outcome)

Model_save(e, resp) ==
  IF e.id = None
    THEN post_model(e, resp)
    ELSE Update(e, None, None, resp)

\* save, as each kind defines it
Save(e, resp) ==
  CASE e.kind = "Role" -> Raise(e, "NotImplementedError")
    [] e.kind = "AttachedFile" -> AttachedFile_upload(e, resp)
    [] OTHER -> Model_save(e, resp)

\* Model.delete
Model_delete(e, id, resp) ==
  IF e.id = None /\ id = None
    THEN Raise(e, "ValueError")
    ELSE delete_model(IF id # None THEN [e EXCEPT !.id = id] ELSE e, resp)

Delete(e, id, resp) ==
  CASE e.kind = "Role" -> Raise(e, "NotImplementedError")
    [] OTHER -> Model_delete(e, id, resp)

Fetch(e, id, a1, a2, resp) ==
  CASE e.kind \in CompositeKinds -> Composite_fetch(e, a1, a2, resp)
    [] e.kind = "Description" -> Description_fetch(e, id, resp)
    [] OTHER -> Model_fetch(e, id, resp)

(***************************************************************************)
(* Model.populate and Model.to_json (model.py).  Field names are sequences *)
(* of characters, so that the prefix tests and renamings are computed.     *)
(***************************************************************************)

K_id == <<"i", "d">>
K_name == <<"n", "a", "m", "e">>
K_created == <<"c", "r", "e", "a", "t", "e", "d">>
K_updated == <<"u", "p", "d", "a", "t", "e", "d">>
K_deleted == <<"d", "e", "l", "e", "t", "e", "d">>
K_query_parameters == <<"_", "q", "u", "e", "r", "y">>
K_uri == <<"u", "r", "i">>
K_uri_ == <<"u", "r", "i", "_">>
K_class == <<"c", "l", "a", "s", "s">>
K_id_x == <<"i", "d", "_", "x">>
K_x == <<"x">>
K_priv == <<"_", "p">>
P_id_ == <<"i", "d", "_">>
P_underscore == <<"_">>

\* the keys and values a mapping given to populate is drawn from
JKeys == {K_id, K_name, K_uri, K_class, K_id_x, K_x, K_priv}
JVals == {None, "a", "b"}

\* the longest mapping given to populate
MaxAttrs == 2

\* str.startswith
StartsWith(k, p) == Len(k) >= Len(p) /\ SubSeq(k, 1, Len(p)) = p

\* setattr(self, key, value) on __dict__
SetAttr(d, k, v) == [x \in (DOMAIN d) \cup {k} |-> IF x = k THEN v ELSE d[x]]

\* Model.__init__: the attributes common to all models
InitDict ==
  [x \in {K_query_parameters, K_id, K_created, K_updated, K_deleted, K_name} |->
     IF x = K_query_parameters THEN "{}" ELSE None]

\* the body of populate's loop for one (key, value) item
PopulateItem(d, key, value) ==
  LET k1 == IF StartsWith(key, P_id_) THEN SubSeq(key, 4, Len(key)) ELSE key
      k2 == IF k1 = K_uri THEN K_uri_ ELSE k1
  IN IF ~StartsWith(k2, P_underscore)
       THEN SetAttr(d, IF k2 = K_class THEN k2 \o P_underscore ELSE k2, value)
       ELSE d

RECURSIVE PopulateItems(_, _)
PopulateItems(d, items) ==
  IF items = <<>> THEN d
  ELSE PopulateItems(PopulateItem(d, items[1][1], items[1][2]), Tail(items))

\* Model.populate
populate(d, attributes) == IF attributes # <<>> THEN PopulateItems(d, attributes) ELSE d

\* Model.to_json: the object handed to json.dumps
to_json(d) ==
  LET keep == {k \in DOMAIN d : d[k] # None /\ ~StartsWith(k, P_underscore)}
      d1 == [k \in keep |-> d[k]]
  IN IF K_uri_ \in keep
       THEN [k \in (keep \ {K_uri_}) \cup {K_uri} |-> IF k = K_uri THEN d1[K_uri_] ELSE d1[k]]
       ELSE d1

\* the mappings given to populate: items with pairwise distinct keys
Items == JKeys \X JVals
AttrSeqs ==
  UNION {{s \in [1..n -> Items] : \A i, j \in 1..n : i # j => s[i][1] # s[j][1]} : n \in 0..MaxAttrs}

JPopulate ==
  /\ jpc = "new"
  /\ jfields' = populate(jfields, jattrs)
  /\ jpc' = "populated"
  /\ UNCHANGED <<jattrs, jout>>
  /\ UNCHANGED notJsonVars

JToJson ==
  /\ jpc = "populated"
  /\ jout' = to_json(jfields)
  /\ jpc' = "dumped"
  /\ UNCHANGED <<jattrs, jfields>>
  /\ UNCHANGED notJsonVars

(***************************************************************************)
(* Collection.save (collection.py) and the chunked parallel uploader       *)
(* generic_chunk_parallel (_utilities/parallel.py).  Elements are named by *)
(* their original position 1..n; python ranges are half-open and 0-based.  *)
(***************************************************************************)

\* the largest small collection saved, the largest number of chunks of a save, and
\* the largest small chunk size
MaxLen == 4
MaxChunks == 4
MaxChunkSize == 3
\* the collection of the 47-element example
BigLen == 47
\* save(chunk=15, n_workers=0)
DefaultChunk == 15
\* the largest n_workers passed, and the largest number of processing units
MaxWorkers == 2
MaxCpus == 2

Min(a, b) == IF a < b THEN a ELSE b

Lens == (0..MaxLen) \cup {BigLen}
\* chunk arguments, tagged with their python type: None, an int, or a str
ChunkInts == (1..MaxChunkSize) \cup {DefaultChunk}
ChunkArgs == {<<"NoneType">>, <<"str">>} \cup {<<"int", c>> : c \in ChunkInts}
WorkerArgs == 0..MaxWorkers

\* the collection classes whose save is rejected by design
RejectedSave == {"ImageInstanceCollection", "ProjectCollection", "UserJobCollection"}

\* chunk is None; isinstance(chunk, int)
IsNone(x) == x[1] = "NoneType"
IsInt(x) == x[1] = "int"

\* the number of chunks of n elements in chunks of c
NChunks(n, c) == (n + c - 1) \div c

\* generic_chunk_parallel: the contiguous index ranges, in order
ChunkRanges(n, c) == [i \in 1..NChunks(n, c) |-> <<(i - 1) * c, Min(i * c, n)>>]

\* generic_chunk_parallel: the pool size (0 means the number of processing units)
PoolSize(n_workers, cpus) == IF n_workers = 0 THEN cpus ELSE n_workers

InFlight(pool) == {i \in DOMAIN pool.task : pool.task[i] = "inflight"}

\* generic_chunk_parallel: a task is handed to a worker only when one is free
CanDispatch_NoLimit(pool) == Cardinality(InFlight(pool)) <= pool.size

CanDispatch(pool) == Cardinality(InFlight(pool)) < pool.size

\* generic_chunk_parallel: the join after dispatch
PoolJoined_Early(pool) == \A i \in DOMAIN pool.task : pool.task[i] # "pending"

PoolJoined(pool) == \A i \in DOMAIN pool.task : pool.task[i] = "done"

\* generic_chunk_parallel: the results, one (range, success) per chunk in chunk order
PoolResults_AsCompleted(pool) ==
  [j \in DOMAIN pool.order |->
     <<pool.ranges[pool.order[j]][1], pool.ranges[pool.order[j]][2], pool.flag[j]>>]

PoolResults(pool) ==
  [i \in DOMAIN pool.ranges |-> <<pool.ranges[i][1], pool.ranges[i][2], pool.flag[i]>>]

\* Collection.__getitem__ with a slice: self[start:end]
Slice(data, start, end) == SubSeq(data, start + 1, Min(end, Len(data)))

\* Collection.save: the loop over the results
RECURSIVE Aggregate_Swapped(_, _, _, _)
Aggregate_Swapped(results, data, added, failed) ==
  IF results = <<>> THEN [added |-> added, failed |-> failed]
  ELSE LET r == results[1]
           part == Slice(data, r[1], r[2])
       IN IF r[3] THEN Aggregate_Swapped(Tail(results), data, part \o added, failed)
                  ELSE Aggregate_Swapped(Tail(results), data, added, part \o failed)

RECURSIVE Aggregate(_, _, _, _)
Aggregate(results, data, added, failed) ==
  IF results = <<>> THEN [added |-> added, failed |-> failed]
  ELSE LET r == results[1]
           part == Slice(data, r[1], r[2])
       IN IF r[3] THEN Aggregate(Tail(results), data, added \o part, failed)
                  ELSE Aggregate(Tail(results), data, added, failed \o part)

\* Collection.save: the partial-upload test
SaveOutcome_AllFailed(added, data) ==
  IF Len(added) = 0 /\ Len(data) # 0 THEN "PartialUpload" ELSE "True"

SaveOutcome(added, data) ==
  IF Len(added) # Len(data) THEN "PartialUpload" ELSE "True"

NoPool == [size |-> 0, ranges |-> <<>>, task |-> <<>>, flag |-> <<>>, sent |-> <<>>, order |-> <<>>]
NoRes == [results |-> <<>>, added |-> <<>>, failed |-> <<>>, ret |-> None, posts |-> <<>>]

\* Collection.save: which of its three branches the chunk argument selects
Collection_save_branch_NoElse(chunk) ==
  IF IsInt(chunk) THEN "chunks" ELSE "post"

Collection_save_branch(chunk) ==
  IF IsNone(chunk) THEN "post"
  ELSE IF IsInt(chunk) THEN "chunks"
  ELSE "ValueError"

\* Collection.save with chunk None: post_collection(self), whose answer is returned;
\* posts lists the calls made, each with the elements submitted and the answer
Collection_save_all_PerElement(data, ok) ==
  [NoRes EXCEPT !.ret = IF ok THEN "True" ELSE "False",
                !.posts = [i \in DOMAIN data |-> [data |-> <<data[i]>>, ok |-> ok]]]

Collection_save_all(data, ok) ==
  [NoRes EXCEPT !.ret = IF ok THEN "True" ELSE "False",
                !.posts = <<[data |-> data, ok |-> ok]>>]

\* save(chunk, n_workers) up to the call of the uploader
SaveCall ==
  \E chunk \in ChunkArgs, w \in WorkerArgs, cpus \in 1..MaxCpus, ok \in BOOLEAN :
    /\ spc = "idle"
    /\ scls \notin RejectedSave
    /\ sargs' = [chunk |-> chunk, n_workers |-> w]
    /\ IF Collection_save_branch(chunk) = "post"
         THEN /\ sres' = Collection_save_all(sdata, ok)
              /\ spc' = "returned"
              /\ UNCHANGED spool
         ELSE IF Collection_save_branch(chunk) = "chunks"
           THEN /\ NChunks(Len(sdata), chunk[2]) <= MaxChunks
                /\ spool' = [size   |-> PoolSize(w, cpus),
                             ranges |-> ChunkRanges(Len(sdata), chunk[2]),
                             task   |-> [i \in 1..NChunks(Len(sdata), chunk[2]) |-> "pending"],
                             flag   |-> [i \in 1..NChunks(Len(sdata), chunk[2]) |-> FALSE],
                             sent   |-> [i \in 1..NChunks(Len(sdata), chunk[2]) |-> 0],
                             order  |-> <<>>]
                /\ spc' = "pool"
                /\ UNCHANGED sres
           ELSE /\ sres' = [NoRes EXCEPT !.ret = "ValueError"]
                /\ spc' = "raised"
                /\ UNCHANGED spool
    /\ UNCHANGED <<sdata, scls>>
    /\ UNCHANGED notSaveVars

\* ImageInstanceCollection.save, ProjectCollection.save, UserJobCollection.save
RejectedSave_Inherited(cls, data, chunk, ok) ==
  IF Collection_save_branch(chunk) = "post" THEN Collection_save_all(data, ok)
  ELSE [NoRes EXCEPT !.ret = "NotImplementedError"]

RejectedSave_save(cls, data, chunk, ok) == [NoRes EXCEPT !.ret = "NotImplementedError"]

\* save(*args, **kwargs) of a collection class that rejects it, in any state (the
\* chunk argument varies, n_workers is left at its default)
SaveRejected ==
  \E chunk \in ChunkArgs, ok \in BOOLEAN :
    /\ scls \in RejectedSave
    /\ sargs' = [chunk |-> chunk, n_workers |-> 0]
    /\ sres' = RejectedSave_save(scls, sdata, chunk, ok)
    /\ spc' = IF sres'.ret = "NotImplementedError" THEN "raised" ELSE "returned"
    /\ UNCHANGED <<sdata, scls, spool>>
    /\ UNCHANGED notSaveVars

\* a free worker takes a chunk and calls _upload_fn on it
PoolDispatch ==
  \E i \in DOMAIN spool.task :
    /\ spc = "pool"
    /\ spool.task[i] = "pending"
    /\ CanDispatch(spool)
    /\ spool' = [spool EXCEPT !.task[i] = "inflight", !.sent[i] = @ + 1]
    /\ UNCHANGED <<sdata, scls, sargs, spc, sres>>
    /\ UNCHANGED notSaveVars

\* the upload of a chunk ends: post_collection's answer is the chunk's success flag
WorkerDone ==
  \E i \in DOMAIN spool.task, ok \in BOOLEAN :
    /\ spc = "pool"
    /\ spool.task[i] = "inflight"
    /\ spool' = [spool EXCEPT !.task[i] = "done", !.flag[i] = ok, !.order = Append(@, i)]
    /\ UNCHANGED <<sdata, scls, sargs, spc, sres>>
    /\ UNCHANGED notSaveVars

\* the uploader returns its results and save sorts the elements into added and failed
SaveJoin ==
  /\ spc = "pool"
  /\ PoolJoined(spool)
  /\ LET results == PoolResults(spool)
         parts == Aggregate(results, sdata, <<>>, <<>>)
         ret == SaveOutcome(parts.added, sdata)
     IN /\ sres' = [results |-> results, added |-> parts.added, failed |-> parts.failed,
                    ret |-> ret, posts |-> <<>>]
        /\ spc' = IF ret = "True" THEN "returned" ELSE "raised"
  /\ UNCHANGED <<sdata, scls, sargs, spool>>
  /\ UNCHANGED notSaveVars

SaveIdle ==
  /\ sdata = <<>>
  /\ scls = "Collection"
  /\ sargs = [chunk |-> <<"NoneType">>, n_workers |-> 0]
  /\ spc = "idle"
  /\ spool = NoPool
  /\ sres = NoRes

(***************************************************************************)
(* Collection.uri (collection.py)                                          *)
(***************************************************************************)

\* "/".join(["{}/{}".format(key, value) for key, value in items if key in allowed])
RECURSIVE JoinFilters(_, _)
JoinFilters(items, allowed) ==
  IF items = <<>> THEN <<>>
  ELSE LET rest == JoinFilters(Tail(items), allowed)
       IN IF items[1][1] \in allowed
            THEN <<items[1][1], "/", items[1][2]>> \o (IF rest # <<>> THEN <<"/">> \o rest ELSE <<>>)
            ELSE rest

\* what uri() gives: the URI returned, or the error raised
UriResult(out, uri) == [pc |-> "done", outcome |-> out, uri |-> uri]

\* Collection.uri
Collection_uri_TwoAllowed(c, without_filters) ==
  IF ~without_filters /\ Len(c.filters) > 2 THEN UriResult("ValueError", <<>>)
  ELSE LET joined == IF without_filters THEN <<>> ELSE JoinFilters(c.filters, c.allowed)
           uri == IF Len(joined) > 0 THEN joined \o <<"/">> ELSE joined
       IN UriResult("ok", uri \o <<c.kind, ".json">>)

Collection_uri(c, without_filters) ==
  IF ~without_filters /\ Len(c.filters) > 1 THEN UriResult("ValueError", <<>>)
  ELSE LET joined == IF without_filters THEN <<>> ELSE JoinFilters(c.filters, c.allowed)
           uri == IF Len(joined) > 0 THEN joined \o <<"/">> ELSE joined
       IN UriResult("ok", uri \o <<c.kind, ".json">>)

(***************************************************************************)
(* Collection.fetch, fetch_next_page, fetch_previous_page and populate     *)
(* (collection.py).  An optional integer is a sequence: <<>> is None.      *)
(***************************************************************************)

\* the largest server total, page size, constructor offset, and number of loop turns
MaxTotal == 5
MaxPageSize == 3
MaxOffset == 2
MaxTurns == 6
\* the longest local sequence a single appending fetch_next_page may build
MaxData == 6

FilterKeys == {"project", "tag"}

\* the owner of the domain-scoped collection that is fetched, and no owner
FetchOwner == [class_ |-> "Project", id |-> "7", annotation |-> FALSE]
NoObject == [class_ |-> Unset, id |-> None, annotation |-> FALSE]

\* Collection.__init__ / DomainCollection.__init__ and the subclasses' _allowed_filters;
\* object is the owner (_object) of a domain-scoped collection
NewCollection(kind, allowed, filters, max, offset) ==
  [kind |-> kind, allowed |-> allowed, filters |-> filters, max |-> max, offset |-> offset,
   total |-> 0, total_pages |-> <<>>, data |-> <<>>,
   object |-> IF kind = "domain" THEN FetchOwner ELSE NoObject]

\* self._model().populate(instance) / self._model(self._object).populate(instance):
\* the element built from one entry of the envelope's array
NewElement(instance, object) == [res |-> instance, object |-> object]

\* the elements built from the entries of the array, in the order of the array
Elements(page, object) == [i \in 1..Len(page) |-> NewElement(page[i], object)]

\* the page the server answers with: the resources offset+1 .. offset+max of its total
\* (all of them from offset on when max is 0)
ServerPage(total, offset, max) ==
  LET last == IF max = 0 THEN total ELSE Min(total, offset + max)
  IN [i \in 1..(IF last > offset THEN last - offset ELSE 0) |-> offset + i]

\* Collection.populate
Collection_populate_CeilPages(c, size, page, append_mode) ==
  [c EXCEPT !.data = IF append_mode THEN @ \o Elements(page, NoObject)
                                    ELSE Elements(page, NoObject),
            !.total = size,
            !.total_pages = IF c.max = 0 THEN <<1>> ELSE <<(size + c.max - 1) \div c.max>>]

Collection_populate(c, size, page, append_mode) ==
  [c EXCEPT !.data = IF append_mode THEN @ \o Elements(page, NoObject)
                                    ELSE Elements(page, NoObject),
            !.total = size,
            !.total_pages = IF c.max = 0 THEN <<1>> ELSE <<size \div c.max>>]

\* DomainCollection.populate
DomainCollection_populate_NoOwner(c, size, page, append_mode) ==
  [c EXCEPT !.data = IF append_mode THEN @ \o Elements(page, NoObject)
                                    ELSE Elements(page, NoObject)]

DomainCollection_populate(c, size, page, append_mode) ==
  [c EXCEPT !.data = IF append_mode THEN @ \o Elements(page, c.object)
                                    ELSE Elements(page, c.object)]

Populate(c, size, page, append_mode) ==
  IF c.kind = "domain" THEN DomainCollection_populate(c, size, page, append_mode)
                       ELSE Collection_populate(c, size, page, append_mode)

\* Collection._fetch refuses an unfiltered fetch; Collection.uri refuses two filters
FetchRefused_TwoFiltersOnly(c) == Cardinality(c.filters) > 1

FetchRefused(c) ==
  \/ c.filters = {} /\ None \notin c.allowed
  \/ Cardinality(c.filters) > 1

\* the name of the listed resource in the URI (callback_identifier)
FetchKind == "resource"

\* the filters of the collection as the items of its dict
FilterItems(c) == IF c.filters = {} THEN <<>> ELSE <<<<CHOOSE k \in c.filters : TRUE, "1">>>>

\* uri() of the collection that is fetched: Collection.uri, and DomainCollection.uri
\* for a domain-scoped one
FetchUri(c) ==
  (IF c.kind = "domain" THEN <<"domain/", c.object.class_, "/", c.object.id, "/">> ELSE <<>>)
    \o Collection_uri([kind |-> FetchKind, allowed |-> c.allowed, filters |-> FilterItems(c)],
                       FALSE).uri

\* Collection._fetch: the request sent and the collection after the transport's
\* get_collection has populated it with the server's answer
FetchOnce(c, append_mode, total) ==
  [req |-> [offset |-> c.offset, max |-> c.max, append |-> append_mode,
            total |-> c.total, uri |-> FetchUri(c)],
   got |-> Len(ServerPage(total, c.offset, c.max)),
   col |-> Populate(c, total, ServerPage(total, c.offset, c.max), append_mode)]

\* fetch_next_page, fetch_previous_page: the new offset
NextOffset(c) == Min(c.total, c.offset + c.max)

PrevOffset_Unclamped(c) == c.offset - c.max

PrevOffset(c) == IF c.offset - c.max > 0 THEN c.offset - c.max ELSE 0

\* the test of fetch's while loop
LoopGoesOn(c, n_pages) ==
  \/ c.total_pages = <<>>
  \/ c.total_pages[1] = 0
  \/ n_pages < c.total_pages[1]

\* the collection was constructed with the default offset and never fetched
Fresh(c) == c.offset = 0 /\ c.total = 0 /\ c.total_pages = <<>> /\ c.data = <<>>

\* fetch(max): max is None or 0
FetchAll ==
  /\ fpc # "loop"
  /\ fop' = [name |-> "fetch", max |-> 0, fresh |-> Fresh(fcol),
             from |-> fcol.offset]
  /\ fnpages' = 0
  /\ IF FetchRefused(fcol)
       THEN /\ fpc' = "raised"
            /\ freqs' = <<>>
            /\ fgot' = 0
            /\ UNCHANGED fcol
       ELSE LET r == FetchOnce(fcol, FALSE, fsrv)
            IN /\ fpc' = "returned"
               /\ freqs' = <<r.req>>
               /\ fgot' = r.got
               /\ fcol' = r.col
  /\ UNCHANGED fsrv
  /\ UNCHANGED notFetchVars

\* fetch(max=k) with k > 0, up to the loop
FetchMax ==
  \E k \in 1..MaxPageSize :
    /\ fpc # "loop"
    /\ fop' = [name |-> "fetch_max", max |-> k, fresh |-> Fresh(fcol),
             from |-> fcol.offset]
    /\ fcol' = [fcol EXCEPT !.max = k]
    /\ fnpages' = 0
    /\ freqs' = <<>>
    /\ fgot' = 0
    /\ fpc' = "loop"
    /\ UNCHANGED fsrv
    /\ UNCHANGED notFetchVars

\* one test of fetch's while loop, and its body when the test passes
FetchLoop ==
  /\ fpc = "loop"
  /\ IF LoopGoesOn(fcol, fnpages)
       THEN /\ fnpages < MaxTurns
            /\ LET c == [fcol EXCEPT !.offset = NextOffset(fcol)]
               IN IF FetchRefused(c)
                    THEN /\ fcol' = c
                         /\ fpc' = "raised"
                         /\ UNCHANGED <<fnpages, freqs, fgot>>
                    ELSE LET r == FetchOnce(c, TRUE, fsrv)
                         IN /\ fcol' = r.col
                            /\ freqs' = Append(freqs, r.req)
                            /\ fgot' = fgot + r.got
                            /\ fnpages' = fnpages + 1
                            /\ UNCHANGED fpc
       ELSE /\ fpc' = "returned"
            /\ UNCHANGED <<fcol, fnpages, freqs, fgot>>
  /\ UNCHANGED <<fsrv, fop>>
  /\ UNCHANGED notFetchVars

\* fetch_next_page(append_mode)
FetchNextPage ==
  \E append_mode \in BOOLEAN :
    /\ fpc # "loop"
    /\ fop' = [name |-> "fetch_next_page", max |-> fcol.max, fresh |-> Fresh(fcol),
             from |-> fcol.offset]
    /\ fnpages' = 0
    /\ LET c == [fcol EXCEPT !.offset = NextOffset(fcol)]
       IN IF FetchRefused(c)
            THEN /\ fcol' = c
                 /\ fpc' = "raised"
                 /\ freqs' = <<>>
                 /\ fgot' = 0
            ELSE LET r == FetchOnce(c, append_mode, fsrv)
                 IN /\ Len(r.col.data) <= MaxData
                    /\ fcol' = r.col
                    /\ fpc' = "returned"
                    /\ freqs' = <<r.req>>
                    /\ fgot' = r.got
    /\ UNCHANGED fsrv
    /\ UNCHANGED notFetchVars

\* fetch_previous_page()
FetchPreviousPage ==
  /\ fpc # "loop"
  /\ fop' = [name |-> "fetch_previous_page", max |-> fcol.max, fresh |-> Fresh(fcol),
             from |-> fcol.offset]
  /\ fnpages' = 0
  /\ LET c == [fcol EXCEPT !.offset = PrevOffset(fcol)]
     IN IF FetchRefused(c)
          THEN /\ fcol' = c
               /\ fpc' = "raised"
               /\ freqs' = <<>>
               /\ fgot' = 0
          ELSE LET r == FetchOnce(c, FALSE, fsrv)
               IN /\ fcol' = r.col
                  /\ fpc' = "returned"
                  /\ freqs' = <<r.req>>
                  /\ fgot' = r.got
  /\ UNCHANGED fsrv
  /\ UNCHANGED notFetchVars

FetchIdle ==
  /\ fcol = NewCollection("plain", {None}, {}, 0, 0)
  /\ fsrv = 0
  /\ fop = [name |-> "init", max |-> 0, fresh |-> TRUE, from |-> 0]
  /\ fpc = "idle"
  /\ fnpages = 0
  /\ freqs = <<>>
  /\ fgot = 0

(***************************************************************************)
(* Collection as a MutableSequence (collection.py): __setitem__,           *)
(* __delitem__, insert, append/extend, __iadd__, __add__, populate.        *)
(* An element is named by the class of the object.                         *)
(***************************************************************************)

\* the longest sequence of the collection operated on, and of the other operand
MaxSeq == 2
MaxOther == 1

\* the declared kinds, and the classes of the values a caller inserts
ModelKinds == {"Project", "User"}
ValueKinds == {"Project", "User", "CurrentUser", "int"}

\* isinstance(value, model): CurrentUser is a subclass of User
IsInstance(v, m) == v = m \/ (v = "CurrentUser" /\ m = "User")

\* the collections that can be constructed: the base class takes any model, a concrete
\* subclass fixes it (ProjectCollection, UserCollection)
CollectionTypes ==
  {<<"Collection", "Project">>, <<"Collection", "User">>,
   <<"ProjectCollection", "Project">>, <<"UserCollection", "User">>}

EmptyCollection(t) == [cls |-> t[1], model |-> t[2], data |-> <<>>]

\* what a sequence operation gives: the collection afterwards and the outcome
SeqResult(c, out) == [col |-> c, outcome |-> out]

\* list.insert(index, value): an index past the end appends
ListInsert(data, index, value) ==
  LET i == Min(index, Len(data))
  IN SubSeq(data, 1, i) \o <<value>> \o SubSeq(data, i + 1, Len(data))

\* Collection.__setitem__ (an index is 0 .. len; len is past the end)
Collection_setitem(c, index, value) ==
  IF ~IsInstance(value, c.model) THEN SeqResult(c, "TypeError")
  ELSE IF index >= Len(c.data) THEN SeqResult(c, "IndexError")
  ELSE SeqResult([c EXCEPT !.data[index + 1] = value], "ok")

\* Collection.__delitem__
Collection_delitem(c, index) ==
  IF index >= Len(c.data) THEN SeqResult(c, "IndexError")
  ELSE SeqResult([c EXCEPT !.data = SubSeq(@, 1, index) \o SubSeq(@, index + 2, Len(@))], "ok")

\* Collection.insert
Collection_insert_ThenCheck(c, index, value) ==
  SeqResult([c EXCEPT !.data = ListInsert(@, index, value)],
            IF ~IsInstance(value, c.model) THEN "TypeError" ELSE "ok")

Collection_insert(c, index, value) ==
  IF ~IsInstance(value, c.model) THEN SeqResult(c, "TypeError")
  ELSE SeqResult([c EXCEPT !.data = ListInsert(@, index, value)], "ok")

\* MutableSequence.append
Collection_append(c, value) == Collection_insert(c, Len(c.data), value)

\* MutableSequence.extend: append each value, stopping at the first that is refused
RECURSIVE Collection_extend(_, _)
Collection_extend(c, values) ==
  IF values = <<>> THEN SeqResult(c, "ok")
  ELSE LET r == Collection_append(c, values[1])
       IN IF r.outcome # "ok" THEN r ELSE Collection_extend(r.col, Tail(values))

\* Collection.__iadd__
Collection_iadd(c, other) ==
  IF c.cls # other.cls THEN SeqResult(c, "TypeError")
  ELSE SeqResult([c EXCEPT !.data = @ \o other.data], "ok")

\* Collection.__add__: a copy of self, emptied, then += self and += other
Collection_add(c, other) ==
  IF c.cls # other.cls THEN SeqResult(c, "TypeError")
  ELSE LET r1 == Collection_iadd([c EXCEPT !.data = <<>>], c)
       IN Collection_iadd(r1.col, other)

\* Collection.populate: one new self._model() per entry of the envelope
Collection_populate_seq(c, n, append_mode) ==
  LET new == [i \in 1..n |-> c.model]
  IN SeqResult([c EXCEPT !.data = IF append_mode THEN @ \o new ELSE new], "ok")

NoSum == [cls |-> None, model |-> None, data |-> <<>>]

SeqSetItem ==
  \E i \in 0..Len(qa.data), v \in ValueKinds :
    LET r == Collection_setitem(qa, i, v)
    IN /\ qa' = r.col
       /\ qop' = [name |-> "setitem", wrong |-> ~IsInstance(v, qa.model), outcome |-> r.outcome]
       /\ qsum' = NoSum
       /\ UNCHANGED qb
       /\ UNCHANGED qfil
       /\ UNCHANGED qfil
     /\ UNCHANGED notSeqVars

SeqDelItem ==
  \E i \in 0..Len(qa.data) :
    LET r == Collection_delitem(qa, i)
    IN /\ qa' = r.col
       /\ qop' = [name |-> "delitem", wrong |-> FALSE, outcome |-> r.outcome]
       /\ qsum' = NoSum
       /\ UNCHANGED qb
       /\ UNCHANGED qfil
       /\ UNCHANGED qfil
     /\ UNCHANGED notSeqVars

SeqInsert ==
  \E i \in 0..Len(qa.data), v \in ValueKinds :
    LET r == Collection_insert(qa, i, v)
    IN /\ Len(r.col.data) <= MaxSeq
       /\ qa' = r.col
       /\ qop' = [name |-> "insert", wrong |-> ~IsInstance(v, qa.model), outcome |-> r.outcome]
       /\ qsum' = NoSum
       /\ UNCHANGED qb
       /\ UNCHANGED qfil
       /\ UNCHANGED qfil
     /\ UNCHANGED notSeqVars

SeqExtend ==
  \E v1 \in ValueKinds, v2 \in ValueKinds :
    LET r == Collection_extend(qa, <<v1, v2>>)
    IN /\ Len(r.col.data) <= MaxSeq
       /\ qa' = r.col
       /\ qop' = [name |-> "extend",
                  wrong |-> ~IsInstance(v1, qa.model) \/ ~IsInstance(v2, qa.model),
                  outcome |-> r.outcome]
       /\ qsum' = NoSum
       /\ UNCHANGED qb
       /\ UNCHANGED qfil
       /\ UNCHANGED qfil
     /\ UNCHANGED notSeqVars

SeqIAdd ==
  LET r == Collection_iadd(qa, qb)
  IN /\ Len(r.col.data) <= MaxSeq
     /\ qa' = r.col
     /\ qop' = [name |-> "iadd", wrong |-> qa.cls # qb.cls, outcome |-> r.outcome]
     /\ qsum' = NoSum
     /\ UNCHANGED qb
     /\ UNCHANGED qfil
     /\ UNCHANGED notSeqVars

SeqAdd ==
  LET r == Collection_add(qa, qb)
  IN /\ qsum' = IF r.outcome = "ok" THEN r.col ELSE NoSum
     /\ qop' = [name |-> "add", wrong |-> qa.cls # qb.cls, outcome |-> r.outcome]
     /\ UNCHANGED <<qa, qb>>
     /\ UNCHANGED qfil
     /\ UNCHANGED notSeqVars

SeqPopulate ==
  \E n \in 0..1, append_mode \in BOOLEAN :
    LET r == Collection_populate_seq(qa, n, append_mode)
    IN /\ Len(r.col.data) <= MaxSeq
       /\ qa' = r.col
       /\ qop' = [name |-> "populate", wrong |-> FALSE, outcome |-> r.outcome]
       /\ qsum' = NoSum
       /\ UNCHANGED qb
       /\ UNCHANGED qfil
       /\ UNCHANGED qfil
     /\ UNCHANGED notSeqVars

\* the other operand is filled by append
SeqAppendOther ==
  \E v \in ValueKinds :
    LET r == Collection_append(qb, v)
    IN /\ Len(r.col.data) <= MaxOther
       /\ qb' = r.col
       /\ qop' = [name |-> "append_other", wrong |-> ~IsInstance(v, qb.model),
                  outcome |-> r.outcome]
       /\ qsum' = NoSum
       /\ UNCHANGED qa
       /\ UNCHANGED qfil
       /\ UNCHANGED qfil
     /\ UNCHANGED notSeqVars

\* the values a collection of the model may hold
InstancesOf(m) == {v \in ValueKinds : IsInstance(v, m)}

\* the sequences of at most n values from the set S
SeqsUpTo(S, n) == UNION {[1..k -> S] : k \in 0..n}

\* the functions given to filter(fn): fn is true of the values in the set
FilterFns == {{}, {"Project", "User"}, ValueKinds}

\* no result is there: each collection has the dict its constructor made
NoShare(fa, fb) == [a |-> fa, b |-> fb, own |-> {}, ref |-> None]

\* copy.copy(self): a new object with the same attributes, so that its _filters is
\* the dict object of self; what is given is the collection and the dict it names
copy_copy(c) == [col |-> c, ref |-> "a"]

\* Collection.filter(fn)
Collection_filter(c, fn) ==
  LET collection == copy_copy(c)
  IN [collection EXCEPT !.col.data = SelectSeq(c.data, LAMBDA v : v \in fn)]

\* Collection.__add__ with the dict its result names
Collection_add_copy(c, other) ==
  LET r == Collection_add(copy_copy(c).col, other)
  IN [col |-> r.col, outcome |-> r.outcome, ref |-> copy_copy(c).ref]

\* Collection.add_filter on the collection whose _filters is the dict ref
Collection_add_filter(fil, ref, key) == [fil EXCEPT ![ref] = @ \cup {key}]

\* a + b, the result being kept
CopyAdd ==
  LET r == Collection_add_copy(qa, qb)
  IN /\ qsum' = IF r.outcome = "ok" THEN r.col ELSE NoSum
     /\ qfil' = IF r.outcome = "ok" THEN [qfil EXCEPT !.ref = r.ref, !.own = {}]
                                    ELSE [qfil EXCEPT !.ref = None, !.own = {}]
     /\ qop' = [name |-> "add", wrong |-> qa.cls # qb.cls, outcome |-> r.outcome]
     /\ UNCHANGED <<qa, qb>>
     /\ UNCHANGED notSeqVars

\* a.filter(fn), the result being kept
CopyFilter ==
  \E fn \in FilterFns :
    LET r == Collection_filter(qa, fn)
    IN /\ qsum' = r.col
       /\ qfil' = [qfil EXCEPT !.ref = r.ref, !.own = {}]
       /\ qop' = [name |-> "filter", wrong |-> FALSE, outcome |-> "ok"]
       /\ UNCHANGED <<qa, qb>>
       /\ UNCHANGED notSeqVars

\* add_filter(key, value) on the result
ResultAddFilter ==
  \E key \in FilterKeys :
    /\ qsum # NoSum
    /\ qfil' = Collection_add_filter(qfil, qfil.ref, key)
    /\ qop' = [name |-> "result_add_filter", wrong |-> FALSE, outcome |-> "ok"]
    /\ UNCHANGED <<qa, qb, qsum>>
    /\ UNCHANGED notSeqVars

\* insert, del and += on the result
ResultMutate ==
  \E m \in ({"result_insert"} \X (0..Len(qsum.data)) \X {qsum.model, "int"})
            \cup ({"result_delitem"} \X (0..Len(qsum.data)) \X {None})
            \cup {<<"result_iadd", 0, None>>} :
    /\ qsum # NoSum
    /\ LET r == CASE m[1] = "result_insert" -> Collection_insert(qsum, m[2], m[3])
                  [] m[1] = "result_delitem" -> Collection_delitem(qsum, m[2])
                  [] m[1] = "result_iadd" -> Collection_iadd(qsum, qb)
       IN /\ Len(r.col.data) <= MaxSeq + MaxOther
          /\ qsum' = r.col
          /\ qop' = [name |-> m[1], wrong |-> FALSE, outcome |-> r.outcome]
    /\ UNCHANGED <<qa, qb, qfil>>
    /\ UNCHANGED notSeqVars

SeqIdle ==
  /\ qa = EmptyCollection(<<"Collection", "Project">>)
  /\ qb = EmptyCollection(<<"Collection", "Project">>)
  /\ qsum = NoSum
  /\ qop = [name |-> "init", wrong |-> FALSE, outcome |-> "ok"]
  /\ qfil = NoShare({}, {})

(***************************************************************************)
(* Collection.uri (collection.py).  A URI is the sequence of the pieces    *)
(* the code formats and joins; the filters are the items of the dict in    *)
(* iteration order.                                                        *)
(***************************************************************************)

\* the largest number of filters set on a collection
MaxFilters == 2

\* the filter keys and values, and the lists _allowed_filters is drawn from
UriKeys == {None, "project", "user"}
UriVals == {"1", "2"}
UriKinds == {"project", "term"}

\* the filter dicts: items with pairwise distinct keys
FilterDicts ==
  UNION {{s \in [1..n -> UriKeys \X UriVals] : \A i, j \in 1..n : i # j => s[i][1] # s[j][1]} :
           n \in 0..MaxFilters}

UriCall ==
  /\ ures.pc = "new"
  /\ ures' = Collection_uri(ucol, uarg)
  /\ UNCHANGED <<ucol, uarg>>
  /\ UNCHANGED notUriVars

UriIdle ==
  /\ ucol = [kind |-> "project", allowed |-> {}, filters |-> <<>>]
  /\ uarg = FALSE
  /\ ures = [pc |-> "idle", outcome |-> "ok", uri |-> <<>>]

(***************************************************************************)
(* Domain-scoped entities and collections (model.py DomainModel,           *)
(* collection.py DomainCollection, property.py).  The owner is a live      *)
(* object; the domain-scoped object keeps the class and id it read from    *)
(* the owner when the owner was assigned.                                  *)
(***************************************************************************)

OwnerClasses == {"Project", "annotation", Unset}
\* the class discriminator the server gives to an annotation it answers with
AnnotationClasses == {"UserAnnotation"}
\* the owner objects: annotation tells whether the object is an instance of Annotation
Owners ==
  {o \in [class_ : OwnerClasses \cup AnnotationClasses, id : IdArgs, annotation : BOOLEAN] :
     /\ o.class_ \in AnnotationClasses => o.annotation
     /\ o.class_ = "Project" => ~o.annotation}

DomainEntityKinds == {"Property", "AttachedFile", "Description", "TagDomainAssociation"}
DomainCollectionKinds == {"AttachedFileCollection", "PropertyCollection"}
DomainKinds == DomainEntityKinds \cup DomainCollectionKinds

\* Model.callback_identifier, Collection.callback_identifier and their overrides
CallbackIdentifier(kind) ==
  CASE kind = "Property" -> "property"
    [] kind = "AttachedFile" -> "attachedfile"
    [] kind = "Description" -> "description"
    [] kind = "TagDomainAssociation" -> "tag_domain_association"
    [] kind = "AttachedFileCollection" -> "attachedfile"
    [] kind = "PropertyCollection" -> "property"

\* key and by_key (_by_key) are the fields a Property adds
NoDom ==
  [kind |-> None, domainClassName |-> None, domainIdent |-> None, id |-> None,
   key |-> None, by_key |-> FALSE]

\* what a constructor gives: the object built (NoDom when it raised) and the outcome
Built(d, out) == [dom |-> d, outcome |-> out, calls |-> <<>>]

\* the obj / _obj setter: the owner's class_ and id are read once
SetOwner(d, object) ==
  IF object.class_ = Unset THEN Built(NoDom, "AttributeError")
  ELSE Built([d EXCEPT !.domainClassName = object.class_, !.domainIdent = object.id], "ok")

\* DomainModel.__init__ (and the constructors of its subclasses, which call it first)
DomainModel_init_NoCheck(kind, object) ==
  SetOwner([NoDom EXCEPT !.kind = kind], object)

DomainModel_init(kind, object) ==
  IF is_new(object) THEN Built(NoDom, "ValueError")
  ELSE SetOwner([NoDom EXCEPT !.kind = kind], object)

\* DomainCollection.__init__ (and the constructors of its subclasses)
DomainCollection_init(kind, object) ==
  IF is_new(object) THEN Built(NoDom, "ValueError")
  ELSE SetOwner([NoDom EXCEPT !.kind = kind], object)

\* PropertyCollection._obj setter: an Annotation instance is named "annotation"
\* whatever its class_ is, and its class_ is not read
PropertyCollection_setobj(d, object) ==
  IF object.annotation
    THEN Built([d EXCEPT !.domainClassName = "annotation", !.domainIdent = object.id], "ok")
    ELSE SetOwner(d, object)

\* PropertyCollection.__init__
PropertyCollection_init(object) ==
  IF is_new(object) THEN Built(NoDom, "ValueError")
  ELSE PropertyCollection_setobj([NoDom EXCEPT !.kind = "PropertyCollection"], object)

\* Property.__init__: _by_key is False once the constructor is done
Property_init(object, key) ==
  LET r == DomainModel_init("Property", object)
  IN IF r.outcome # "ok" THEN r
     ELSE Built([r.dom EXCEPT !.key = key, !.by_key = FALSE], "ok")

Construct(kind, object) ==
  CASE kind = "PropertyCollection" -> PropertyCollection_init(object)
    [] kind = "Property" -> Property_init(object, None)
    [] kind \in DomainCollectionKinds \ {"PropertyCollection"} -> DomainCollection_init(kind, object)
    [] OTHER -> DomainModel_init(kind, object)

\* str.replace("domain/", "") on a URI whose other pieces do not hold "domain/"
DropDomain(uri) == SelectSeq(uri, LAMBDA t : t # "domain/")

\* Model.uri
Model_uri(d) ==
  IF is_new(d) THEN <<CallbackIdentifier(d.kind), ".json">>
               ELSE <<CallbackIdentifier(d.kind), "/", d.id, ".json">>

\* DomainModel.uri
DomainModel_uri(d) ==
  <<"domain/", d.domainClassName, "/", d.domainIdent, "/">> \o Model_uri(d)

\* Property.uri: the by-key URI while _by_key is set and class, id and key are there
Property_uri(d) ==
  LET uri == IF d.by_key /\ d.domainClassName # None /\ d.domainIdent # None /\ d.key # None
               THEN <<"domain/", d.domainClassName, "/", d.domainIdent, "/",
                      "key/", d.key, "/", "property", ".json">>
               ELSE DomainModel_uri(d)
  IN IF d.domainClassName = "annotation" THEN DropDomain(uri) ELSE uri

\* AttachedFile.uri
AttachedFile_uri(d) == Model_uri(d)

\* Description.uri: reads self._object
Description_uri(d, object) ==
  <<"domain/", object.class_, "/", object.id, "/", CallbackIdentifier(d.kind), ".json">>

\* TagDomainAssociation.uri
TagDomainAssociation_uri(d) ==
  IF d.id # None THEN <<CallbackIdentifier(d.kind), "/", d.id, ".json">>
  ELSE IF d.domainClassName # None /\ d.domainIdent # None THEN DomainModel_uri(d)
  ELSE <<None>>

\* DomainCollection.uri (no filter is set on the collection)
DomainCollection_uri(d) ==
  <<"domain/", d.domainClassName, "/", d.domainIdent, "/">>
    \o Collection_uri([kind |-> CallbackIdentifier(d.kind), allowed |-> {None},
                       filters |-> <<>>], FALSE).uri

\* PropertyCollection.uri
PropertyCollection_uri(d) ==
  IF d.domainClassName = "annotation" THEN DropDomain(DomainCollection_uri(d))
                                      ELSE DomainCollection_uri(d)

\* uri(), as each domain-scoped kind defines it
DomUri(d, object) ==
  CASE d.kind = "Property" -> Property_uri(d)
    [] d.kind = "AttachedFile" -> AttachedFile_uri(d)
    [] d.kind = "Description" -> Description_uri(d, object)
    [] d.kind = "TagDomainAssociation" -> TagDomainAssociation_uri(d)
    [] d.kind = "AttachedFileCollection" -> DomainCollection_uri(d)
    [] d.kind = "PropertyCollection" -> PropertyCollection_uri(d)

\* a domain-scoped entity or collection is constructed around the owner
DomConstruct ==
  \E kind \in DomainKinds :
    LET r == Construct(kind, owner)
    IN /\ dom' = IF r.outcome = "ok" THEN r.dom ELSE dom
       /\ dop' = [name |-> "construct", outcome |-> r.outcome, calls |-> r.calls, uri |-> <<>>]
       /\ UNCHANGED owner
       /\ UNCHANGED notDomainVars

\* the owner object changes: it is saved, fetched under another id, or populated
OwnerChange ==
  \E cls \in OwnerClasses \cup AnnotationClasses, id \in IdArgs :
    /\ owner' = [owner EXCEPT !.class_ = cls, !.id = id]
    /\ owner' \in Owners
    /\ owner' # owner
    /\ dop' = [name |-> "owner", outcome |-> "ok", calls |-> <<>>, uri |-> <<>>]
    /\ UNCHANGED dom
    /\ UNCHANGED notDomainVars

\* the domain-scoped entity as Model's operations see it
AsEntity(d) == [kind |-> d.kind, id |-> d.id, key1 |-> None, key2 |-> None, name |-> None]

\* save() of the domain-scoped entity
DomSave ==
  \E resp \in Responses :
    /\ dom.kind \in DomainEntityKinds
    /\ LET r == Save(AsEntity(dom), resp)
       IN /\ dom' = [dom EXCEPT !.id = r.ent.id]
          /\ dop' = [name |-> "save", outcome |-> r.outcome, calls |-> r.calls, uri |-> <<>>]
    /\ UNCHANGED owner
    /\ UNCHANGED notDomainVars

\* Description.uri reads self._object.class_, which an unpopulated owner does not have
UriRaises(d, object) == d.kind = "Description" /\ object.class_ = Unset

\* uri() of the domain-scoped entity or collection
DomUriCall ==
  /\ dom # NoDom
  /\ dop' = IF UriRaises(dom, owner)
              THEN [name |-> "uri", outcome |-> "AttributeError", calls |-> <<>>, uri |-> <<>>]
              ELSE [name |-> "uri", outcome |-> "ok", calls |-> <<>>, uri |-> DomUri(dom, owner)]
  /\ UNCHANGED <<owner, dom>>
  /\ UNCHANGED notDomainVars

DomainIdle ==
  /\ owner = [class_ |-> Unset, id |-> None, annotation |-> FALSE]
  /\ dom = NoDom
  /\ dop = [name |-> "init", outcome |-> "ok", calls |-> <<>>, uri |-> <<>>]

(***************************************************************************)
(* Property and PropertyCollection (property.py): the by-key addressing    *)
(* of a property and the "annotation" special case of both.                *)
(***************************************************************************)

\* the key given to the constructor or to fetch
PKeys == {None, "k"}

\* Transport (cytomine/cytomine.py): get_model answers with the entity, answers with
\* a failure, or does not answer and raises (a network error); the server reports
\* the id of the property it found
PResponses == [out : {"ok", "failed", "raised"}, id : Ids]

\* the result of an operation on the property: the property afterwards, the outcome,
\* the transport calls and the URI they addressed
PResult(d, out, cs, uri) == [dom |-> d, outcome |-> out, calls |-> cs, uri |-> uri]

\* Property.fetch: _by_key is reset on the line after get_model, which an exception
\* raised by get_model skips
Property_fetch(d, id, key, resp) ==
  IF d.id = None /\ id = None /\ d.key = None /\ key = None
    THEN PResult(d, "ValueError", <<>>, <<>>)
    ELSE LET d1 == IF id # None THEN [d EXCEPT !.id = id] ELSE d
             d2 == IF key # None THEN [d1 EXCEPT !.key = key, !.by_key = TRUE] ELSE d1
             d3 == IF resp.out = "ok" /\ d2.id = None THEN [d2 EXCEPT !.id = resp.id] ELSE d2
         IN IF resp.out = "raised"
              THEN PResult(d2, "TransportError", <<"get_model">>, Property_uri(d2))
              ELSE PResult([d3 EXCEPT !.by_key = FALSE], resp.out, <<"get_model">>,
                           Property_uri(d2))

\* Property(object, key)
PropertyConstruct ==
  \E key \in PKeys :
    LET r == Property_init(pown, key)
    IN /\ prop' = IF r.outcome = "ok" THEN r.dom ELSE prop
       /\ pop' = [name |-> "construct", outcome |-> r.outcome, calls |-> <<>>, uri |-> <<>>]
       /\ UNCHANGED <<pown, pcol>>
       /\ UNCHANGED notPropertyVars

\* PropertyCollection(object)
PropertyCollectionConstruct ==
  LET r == PropertyCollection_init(pown)
  IN /\ pcol' = IF r.outcome = "ok" THEN r.dom ELSE pcol
     /\ pop' = [name |-> "construct_collection", outcome |-> r.outcome, calls |-> <<>>,
                uri |-> <<>>]
     /\ UNCHANGED <<pown, prop>>
     /\ UNCHANGED notPropertyVars

\* fetch(id, key) of the property
PropertyFetch ==
  \E id \in IdArgs, key \in PKeys, resp \in PResponses :
    /\ prop # NoDom
    /\ LET r == Property_fetch(prop, id, key, resp)
       IN /\ prop' = r.dom
          /\ pop' = [name |-> "fetch", outcome |-> r.outcome, calls |-> r.calls, uri |-> r.uri]
    /\ UNCHANGED <<pown, pcol>>
    /\ UNCHANGED notPropertyVars

\* save(), update() and delete() of the property: Model's, addressed to uri()
PropertyWrite ==
  \E name \in {"save", "update", "delete"}, resp \in Responses :
    /\ prop # NoDom
    /\ LET r == CASE name = "save" -> Save(AsEntity(prop), resp)
                  [] name = "update" -> Update(AsEntity(prop), None, None, resp)
                  [] name = "delete" -> Delete(AsEntity(prop), None, resp)
       IN /\ prop' = [prop EXCEPT !.id = r.ent.id]
          /\ pop' = [name |-> name, outcome |-> r.outcome, calls |-> r.calls,
                     uri |-> IF r.calls = <<>> THEN <<>> ELSE Property_uri(prop)]
    /\ UNCHANGED <<pown, pcol>>
    /\ UNCHANGED notPropertyVars

PropertyIdle ==
  /\ pown = [class_ |-> Unset, id |-> None, annotation |-> FALSE]
  /\ prop = NoDom
  /\ pcol = NoDom
  /\ pop = [name |-> "init", outcome |-> "ok", calls |-> <<>>, uri |-> <<>>]

(***************************************************************************)
(* Entity operations as actions                                            *)
(***************************************************************************)

\* no composite key is given to the call
NoKeys == <<None, None>>

\* the entity, the transport calls and the outcome after an operation with result r
Applied(name, id, attrs, keys, r) ==
  /\ ent' = r.ent
  /\ calls' = r.calls
  /\ outcome' = r.outcome
  /\ op' = [name |-> name, id |-> id, attrs |-> attrs, keys |-> keys]

DoSave ==
  /\ \E resp \in Responses : Applied("save", None, None, NoKeys, Save(ent, resp))
  /\ UNCHANGED notEntityVars

DoUpdate ==
  /\ \E id \in IdArgs, attrs \in AttrArgs, resp \in Responses :
       Applied("update", id, attrs, NoKeys, Update(ent, id, attrs, resp))
  /\ UNCHANGED notEntityVars

DoDelete ==
  /\ \E id \in IdArgs, resp \in Responses : Applied("delete", id, None, NoKeys, Delete(ent, id, resp))
  /\ UNCHANGED notEntityVars

DoFetch ==
  /\ \E id \in IdArgs, a1 \in KeyVals, a2 \in KeyVals, resp \in Responses :
       /\ ent.kind \in CompositeKinds \/ (a1 = None /\ a2 = None)
       /\ ent.kind \notin CompositeKinds \/ id = None
       /\ Applied("fetch", id, None, <<a1, a2>>, Fetch(ent, id, a1, a2, resp))
  /\ UNCHANGED notEntityVars

JsonIdle ==
  /\ jattrs = <<>>
  /\ jfields = <<>>
  /\ jout = <<>>
  /\ jpc = "idle"

EntityIdle ==
  /\ ent = NewEntity("Project", None, None)
  /\ op = [name |-> "init", id |-> None, attrs |-> None, keys |-> NoKeys]
  /\ calls = <<>>
  /\ outcome = "ok"

Init ==
  /\ \E kind \in EntityKinds, a1 \in KeyVals, a2 \in KeyVals :
       /\ kind \in CompositeKinds \/ (a1 = None /\ a2 = None)
       /\ ent = NewEntity(kind, a1, a2)
  /\ op = [name |-> "init", id |-> None, attrs |-> None, keys |-> NoKeys]
  /\ calls = <<>>
  /\ outcome = "ok"
  /\ JsonIdle
  /\ SaveIdle
  /\ FetchIdle
  /\ SeqIdle
  /\ UriIdle
  /\ DomainIdle
  /\ PropertyIdle

Next == DoSave \/ DoUpdate \/ DoDelete \/ DoFetch

Spec == Init /\ [][Next]_vars

InitJson ==
  /\ EntityIdle
  /\ jattrs \in AttrSeqs
  /\ jfields = InitDict
  /\ jout = <<>>
  /\ jpc = "new"
  /\ SaveIdle
  /\ FetchIdle
  /\ SeqIdle
  /\ UriIdle
  /\ DomainIdle
  /\ PropertyIdle

NextJson == JPopulate \/ JToJson

SpecJson == InitJson /\ [][NextJson]_vars

InitSave ==
  /\ EntityIdle
  /\ JsonIdle
  /\ \E n \in Lens : sdata = [i \in 1..n |-> i]
  /\ scls = "Collection"
  /\ sargs = [chunk |-> <<"NoneType">>, n_workers |-> 0]
  /\ spc = "idle"
  /\ spool = NoPool
  /\ sres = NoRes
  /\ FetchIdle
  /\ SeqIdle
  /\ UriIdle
  /\ DomainIdle
  /\ PropertyIdle

NextSave == SaveCall \/ PoolDispatch \/ WorkerDone \/ SaveJoin

SpecSave == InitSave /\ [][NextSave]_vars

InitFetch ==
  /\ EntityIdle
  /\ JsonIdle
  /\ SaveIdle
  /\ \E kind \in {"plain", "domain"}, allowed \in SUBSET {None, "project"},
        filters \in SUBSET FilterKeys, max \in 0..MaxPageSize, offset \in 0..MaxOffset :
       fcol = NewCollection(kind, allowed, filters, max, offset)
  /\ fsrv \in 0..MaxTotal
  /\ fop = [name |-> "init", max |-> 0, fresh |-> TRUE, from |-> 0]
  /\ fpc = "idle"
  /\ fnpages = 0
  /\ freqs = <<>>
  /\ fgot = 0
  /\ SeqIdle
  /\ UriIdle
  /\ DomainIdle
  /\ PropertyIdle

NextFetch == FetchAll \/ FetchMax \/ FetchLoop \/ FetchNextPage \/ FetchPreviousPage

SpecFetch == InitFetch /\ [][NextFetch]_vars

InitSeq ==
  /\ EntityIdle
  /\ JsonIdle
  /\ SaveIdle
  /\ FetchIdle
  /\ \E ta \in CollectionTypes, tb \in CollectionTypes :
       /\ qa = EmptyCollection(ta)
       /\ qb = EmptyCollection(tb)
  /\ qsum = NoSum
  /\ qop = [name |-> "init", wrong |-> FALSE, outcome |-> "ok"]
  /\ qfil = NoShare({}, {})
  /\ UriIdle
  /\ DomainIdle
  /\ PropertyIdle

NextSeq ==
  \/ SeqSetItem \/ SeqDelItem \/ SeqInsert \/ SeqExtend \/ SeqIAdd \/ SeqAdd
  \/ SeqPopulate \/ SeqAppendOther

SpecSeq == InitSeq /\ [][NextSeq]_vars

\* two collections that hold instances of their kinds, with the filters they were given
InitCopy ==
  /\ EntityIdle
  /\ JsonIdle
  /\ SaveIdle
  /\ FetchIdle
  /\ \E ta \in CollectionTypes, tb \in CollectionTypes :
       /\ \E da \in SeqsUpTo(InstancesOf(ta[2]), MaxSeq) :
            qa = [EmptyCollection(ta) EXCEPT !.data = da]
       /\ \E db \in SeqsUpTo(InstancesOf(tb[2]), MaxOther) :
            qb = [EmptyCollection(tb) EXCEPT !.data = db]
  /\ qsum = NoSum
  /\ qop = [name |-> "init", wrong |-> FALSE, outcome |-> "ok"]
  /\ \E fa \in {{}, {"project"}} : qfil = NoShare(fa, {})
  /\ UriIdle
  /\ DomainIdle
  /\ PropertyIdle

NextCopy == CopyAdd \/ CopyFilter \/ ResultAddFilter \/ ResultMutate

SpecCopy == InitCopy /\ [][NextCopy]_vars

InitUri ==
  /\ EntityIdle
  /\ JsonIdle
  /\ SaveIdle
  /\ FetchIdle
  /\ SeqIdle
  /\ \E kind \in UriKinds, allowed \in SUBSET UriKeys, filters \in FilterDicts :
       ucol = [kind |-> kind, allowed |-> allowed, filters |-> filters]
  /\ uarg \in BOOLEAN
  /\ ures = [pc |-> "new", outcome |-> "ok", uri |-> <<>>]
  /\ DomainIdle
  /\ PropertyIdle

NextUri == UriCall

SpecUri == InitUri /\ [][NextUri]_vars

InitDomain ==
  /\ EntityIdle
  /\ JsonIdle
  /\ SaveIdle
  /\ FetchIdle
  /\ SeqIdle
  /\ UriIdle
  /\ owner \in Owners
  /\ dom = NoDom
  /\ dop = [name |-> "init", outcome |-> "ok", calls |-> <<>>, uri |-> <<>>]
  /\ PropertyIdle

NextDomain == DomConstruct \/ OwnerChange \/ DomSave \/ DomUriCall

SpecDomain == InitDomain /\ [][NextDomain]_vars

\* a property and a property collection around one owner
InitProperty ==
  /\ EntityIdle
  /\ JsonIdle
  /\ SaveIdle
  /\ FetchIdle
  /\ SeqIdle
  /\ UriIdle
  /\ DomainIdle
  /\ pown \in Owners
  /\ prop = NoDom
  /\ pcol = NoDom
  /\ pop = [name |-> "init", outcome |-> "ok", calls |-> <<>>, uri |-> <<>>]

NextProperty == PropertyConstruct \/ PropertyCollectionConstruct \/ PropertyFetch \/ PropertyWrite

SpecProperty == InitProperty /\ [][NextProperty]_vars

\* the entities and the collections with operations rejected by design
InitRejected ==
  /\ \E kind \in CompositeKinds \cup {"Role"}, a1 \in KeyVals, a2 \in KeyVals :
       /\ kind \in CompositeKinds \/ (a1 = None /\ a2 = None)
       /\ ent = NewEntity(kind, a1, a2)
  /\ op = [name |-> "init", id |-> None, attrs |-> None, keys |-> NoKeys]
  /\ calls = <<>>
  /\ outcome = "ok"
  /\ JsonIdle
  /\ \E n \in {0, MaxLen} : sdata = [i \in 1..n |-> i]
  /\ scls \in RejectedSave
  /\ sargs = [chunk |-> <<"NoneType">>, n_workers |-> 0]
  /\ spc = "idle"
  /\ spool = NoPool
  /\ sres = NoRes
  /\ FetchIdle
  /\ SeqIdle
  /\ UriIdle
  /\ DomainIdle
  /\ PropertyIdle

NextRejected == DoSave \/ DoUpdate \/ DoDelete \/ DoFetch \/ SaveRejected

SpecRejected == InitRejected /\ [][NextRejected]_vars

(***************************************************************************)
(* Claims                                                                  *)
(***************************************************************************)

\* the kinds whose save and update are Model's own
InheritsSave(e) ==
  /\ e.kind \notin {"Role", "AttachedFile"}
  /\ e.kind \in CompositeKinds => e.id = None

FieldOf(k) == IF StartsWith(k, P_id_) THEN SubSeq(k, 4, Len(k)) ELSE k

\* C2 (as stated): populate(m) followed by to_json() emits every non-null, non-private
\* field of m with its value, the keys 'uri' and 'class' included under their own names
\* (a key is left out of the comparison when another key of m names the same field).
C2_RoundTrip ==
  jpc = "dumped" =>
    \A i \in 1..Len(jattrs) :
      LET f == FieldOf(jattrs[i][1])
          v == jattrs[i][2]
      IN (/\ v # None
          /\ ~StartsWith(f, P_underscore)
          /\ \A j \in 1..Len(jattrs) : j # i => FieldOf(jattrs[j][1]) # f)
         => (f \in DOMAIN jout /\ jout[f] = v)

\* a chunked save has handed its result (True or the partial-upload error) to the caller
ChunkedSaveDone == spc \in {"returned", "raised"} /\ IsInt(sargs.chunk)

\* the elements whose chunk (position p is in chunk p \div c, counting from 0) has the
\* success flag want, in their original order
RECURSIVE PickByChunk(_, _, _, _, _)
PickByChunk(data, flag, c, want, p) ==
  IF p > Len(data) THEN <<>>
  ELSE (IF flag[((p - 1) \div c) + 1] = want THEN <<data[p]>> ELSE <<>>)
         \o PickByChunk(data, flag, c, want, p + 1)

SeqRange(q) == {q[i] : i \in DOMAIN q}

\* C3: chunked save partitions n elements with chunk size c into the contiguous ranges
\* [i*c, min((i+1)*c, n)), each index in exactly one range (47 elements with chunk=15
\* give sizes 15,15,15,2); failed is exactly the elements of the ranges whose worker
\* failed and created the remaining elements, both in original order (failing only
\* chunk index 2 of the 47 gives failed = positions [30,45)).
C3_ChunkPartition ==
  ChunkedSaveDone =>
    LET n == Len(sdata)
        c == sargs.chunk[2]
        rs == spool.ranges
    IN /\ \A i \in DOMAIN rs : rs[i] = <<(i - 1) * c, Min(i * c, n)>>
       /\ \A p \in 0..(n - 1) :
            Cardinality({i \in DOMAIN rs : rs[i][1] <= p /\ p < rs[i][2]}) = 1
       /\ (n = 47 /\ c = 15) => [i \in DOMAIN rs |-> rs[i][2] - rs[i][1]] = <<15, 15, 15, 2>>
       /\ sres.added = PickByChunk(sdata, spool.flag, c, TRUE, 1)
       /\ sres.failed = PickByChunk(sdata, spool.flag, c, FALSE, 1)
       /\ (n = 47 /\ c = 15 /\ spool.flag = <<TRUE, TRUE, FALSE, TRUE>>) =>
            sres.failed = [k \in 1..15 |-> sdata[30 + k]]

\* C3 witness: the 47-element save with chunk=15 where only chunk index 2 failed.
C3_Witness ==
  /\ ChunkedSaveDone
  /\ Len(sdata) = 47 /\ sargs.chunk[2] = 15
  /\ spool.flag = <<TRUE, TRUE, FALSE, TRUE>>
  /\ Len(sres.failed) = 15 /\ Len(sres.added) = 32

C5_BoundedPool ==
  /\ sargs.n_workers > 0 => Cardinality(InFlight(spool)) <= sargs.n_workers
  /\ \A i \in DOMAIN spool.sent :
       /\ spool.sent[i] = IF spool.task[i] = "pending" THEN 0 ELSE 1
       /\ ChunkedSaveDone => spool.sent[i] = 1

\* C5 witness: the pool is full (w uploads in flight) while a chunk still waits, and a
\* chunk has already failed.
C5_Witness ==
  /\ spc = "pool"
  /\ sargs.n_workers > 0
  /\ Cardinality(InFlight(spool)) = sargs.n_workers
  /\ \E i \in DOMAIN spool.task : spool.task[i] = "pending"
  /\ \E i \in DOMAIN spool.task : spool.task[i] = "done" /\ ~spool.flag[i]

\* C6: whatever the completion order of the workers, the aggregated (range, success)
\* results are in ascending chunk order, each with the flag its own worker returned,
\* so that created and failed are the elements of the original positions.
C6_ResultsInChunkOrder ==
  ChunkedSaveDone =>
    /\ Len(sres.results) = Len(spool.ranges)
    /\ \A i \in DOMAIN sres.results :
         sres.results[i] = <<spool.ranges[i][1], spool.ranges[i][2], spool.flag[i]>>
    /\ \A i, j \in DOMAIN sres.results : i < j => sres.results[i][1] < sres.results[j][1]
    /\ sres.added = PickByChunk(sdata, spool.flag, sargs.chunk[2], TRUE, 1)
    /\ sres.failed = PickByChunk(sdata, spool.flag, sargs.chunk[2], FALSE, 1)

\* C6 witness: the chunks completed out of order, with different flags.
C6_Witness ==
  /\ ChunkedSaveDone
  /\ \E j \in DOMAIN spool.order : j > 1 /\ spool.order[j] < spool.order[j - 1]
  /\ \E i, j \in DOMAIN spool.flag : spool.flag[i] /\ ~spool.flag[j]

\* C7: a chunked save returns or raises only after every dispatched chunk task has
\* completed: no result is delivered while a chunk upload is in flight or waiting.
C7_JoinBeforeReturn ==
  (IsInt(sargs.chunk) /\ (sres.ret # None \/ spc \in {"returned", "raised"})) =>
    \A i \in DOMAIN spool.task : spool.task[i] = "done"

\* C7 witness: a save whose uploads ran two at a time has delivered its result.
C7_Witness ==
  /\ ChunkedSaveDone
  /\ spool.size > 1
  /\ Len(spool.task) > 2
  /\ \A i \in DOMAIN spool.task : spool.task[i] = "done"

\* C8 (as stated): fetch(max=k) on a freshly constructed collection whose server total
\* is T issues exactly T // k page requests, every one in append mode, at offsets
\* 0, k, 2k, ...; afterwards the local element count is the number of elements returned.
C8_PagesFetched ==
  (fop.name = "fetch_max" /\ fop.fresh /\ fpc \in {"loop", "returned"}) =>
    /\ Len(freqs) <= fsrv \div fop.max
    /\ \A i \in DOMAIN freqs :
         freqs[i].append /\ freqs[i].max = fop.max /\ freqs[i].offset = (i - 1) * fop.max
    /\ fpc = "returned" => (Len(freqs) = fsrv \div fop.max /\ Len(fcol.data) = fgot)

\* every element of c is an instance of c's declared kind
KindInvariant(c) == \A i \in DOMAIN c.data : IsInstance(c.data[i], c.model)

\* C9 (as stated): after any sequence of indexed set, insert, append/extend, +=, + and
\* populate every element of a collection is an instance of its declared kind; + and +=
\* are rejected with a type error unless both operands have the same concrete class.
C9_KindInvariant ==
  /\ KindInvariant(qa) /\ KindInvariant(qb) /\ KindInvariant(qsum)
  /\ (qop.name \in {"iadd", "add"} /\ qa.cls # qb.cls) => qop.outcome = "TypeError"

\* C10: insert or indexed set of a value that is not an instance of the declared kind
\* fails with a type error and leaves the element sequence as it was.
C10_WrongKindRejected ==
  [][(qop'.name \in {"insert", "setitem"} /\ qop'.wrong) =>
       (qop'.outcome = "TypeError" /\ qa'.data = qa.data)]_vars

\* C10 witness: a value of the wrong kind was refused by a collection that holds elements.
C10_Witness ==
  /\ qop.name \in {"insert", "setitem"}
  /\ qop.wrong
  /\ qop.outcome = "TypeError"
  /\ Len(qa.data) = MaxSeq

\* C11: uri() with filters requested fails with an invalid-argument error whenever two
\* or more filter keys are set; with exactly one filter set and allowed the URI is
\* exactly <key>/<value>/<kind>.json; with no allowed filter set (none set, or the one
\* set is not allowed) or with without_filters true the URI is exactly <kind>.json.
C11_UriOfFilters ==
  ures.pc = "done" =>
    LET n == Len(ucol.filters)
        plain == <<ucol.kind, ".json">>
    IN /\ (~uarg /\ n >= 2) => (ures.outcome = "ValueError" /\ ures.uri = <<>>)
       /\ (~uarg /\ n = 1 /\ ucol.filters[1][1] \in ucol.allowed) =>
            /\ ures.outcome = "ok"
            /\ ures.uri = <<ucol.filters[1][1], "/", ucol.filters[1][2], "/">> \o plain
       /\ (~uarg /\ n = 1 /\ ucol.filters[1][1] \notin ucol.allowed) =>
            (ures.outcome = "ok" /\ ures.uri = plain)
       /\ (uarg \/ n = 0) => (ures.outcome = "ok" /\ ures.uri = plain)

\* C11 witness: uri() of a collection with two filters set, both allowed, has raised.
C11_Witness ==
  /\ ures.pc = "done"
  /\ ~uarg
  /\ Len(ucol.filters) = 2
  /\ \A i \in 1..2 : ucol.filters[i][1] \in ucol.allowed
  /\ ures.outcome = "ValueError"

\* C12: constructing a domain-scoped entity or collection around an owner whose id is
\* unset fails at once with an invalid-argument error: no object is built and no
\* transport call is made.
C12_UnsavedOwnerRefused ==
  [][(dop'.name = "construct" /\ owner.id = None) =>
       (dop'.outcome = "ValueError" /\ dop'.calls = <<>> /\ dom' = dom)]_vars

\* C12 witness: a construction around an owner without id was refused after the owner
\* had been used, with an id, to build an entity that was then saved.
C12_Witness ==
  /\ dop.name = "construct"
  /\ dop.outcome = "ValueError"
  /\ owner.id = None
  /\ dom.kind \in DomainEntityKinds
  /\ dom.id # None

\* the owner as the domain-scoped object captured it when the owner was assigned
CapturedOwner(d) == [class_ |-> d.domainClassName, id |-> d.domainIdent]

\* C18 (as stated): uri() of every domain-scoped kind, Description included, returns the
\* URI built from the owner class and owner id captured when the owner was assigned,
\* also after the owner object's id or class discriminator has changed.
C18_UriFromCapturedOwner ==
  dop.name = "uri" =>
    /\ dop.outcome = "ok"
    /\ dop.uri = DomUri(dom, CapturedOwner(dom))

\* C13 (as stated): from any starting offset, fetch_next_page followed by
\* fetch_previous_page returns offset to its original value, every intermediate and
\* final offset lying in [0, total].
C13_NextThenPrevious ==
  [][(/\ fop.name = "fetch_next_page" /\ fpc = "returned"
      /\ fop'.name = "fetch_previous_page" /\ fpc' = "returned") =>
       /\ fcol'.offset = fop.from
       /\ fcol.offset \in 0..fcol.total
       /\ fcol'.offset \in 0..fcol'.total]_vars

\* C13 (amended): fetch_next_page sets offset to min(total, offset + max) with the total
\* known before the call, fetch_previous_page sets it to max(0, offset - max); when
\* fetch_next_page did not clamp (offset + max <= that total), fetch_next_page followed
\* by fetch_previous_page returns offset to its original value.
C13_NextThenPreviousUnclamped ==
  [][/\ fop'.name = "fetch_next_page" =>
          /\ fcol'.offset \in 0..fcol.total
          /\ fcol'.offset = Min(fcol.total, fcol.offset + fcol.max)
     /\ fop'.name = "fetch_previous_page" =>
          /\ fcol'.offset \in 0..fcol.offset
          /\ fcol'.offset = fcol.offset - fcol.max \/ fcol'.offset = 0
     /\ (/\ fop.name = "fetch_next_page" /\ fpc = "returned"
         /\ fop'.name = "fetch_previous_page" /\ fpc' = "returned"
         /\ fcol.offset = fop.from + fcol.max) =>
          fcol'.offset = fop.from]_vars

\* C13 witness: a page was fetched forward from a non-zero offset without clamping and
\* the previous page was fetched back to that offset.
C13_Witness ==
  /\ fop.name = "fetch_previous_page"
  /\ fpc = "returned"
  /\ fcol.max > 0
  /\ fcol.offset > 0
  /\ fcol.offset = fop.from - fcol.max
  /\ fcol.offset + 2 * fcol.max <= fcol.total

\* C14 (as stated): once an entity's id is assigned, save, update and delete, with or
\* without an id argument, leave the id as it was; only an explicit fetch changes it.
C14_IdImmutable ==
  [][(ent.id # None /\ op'.name \in {"save", "update", "delete"}) => ent'.id = ent.id]_vars

\* the call names no identifier: the entity has no id and no id argument is given (for
\* fetch by composite key: one of the two keys is neither on the entity nor given)
NoIdentifier(e, o) ==
  IF o.name = "fetch" /\ e.kind \in CompositeKinds
    THEN (e.key1 = None /\ o.keys[1] = None) \/ (e.key2 = None /\ o.keys[2] = None)
    ELSE e.id = None /\ o.id = None

\* C15 (as stated): for every entity kind, fetch, update and delete called when no id is
\* on the entity and none is supplied fail with an invalid-argument error and make no
\* transport call; when an id is resolvable, update with attributes populates them
\* first and then makes exactly one put_model call.
C15_MissingIdRefused ==
  [][/\ (op'.name \in {"fetch", "update", "delete"} /\ NoIdentifier(ent, op')) =>
          (outcome' = "ValueError" /\ calls' = <<>>)
     /\ (op'.name = "update" /\ ~NoIdentifier(ent, op') /\ op'.attrs # None) =>
          (ent'.name = op'.attrs /\ calls' = <<"put_model">>)]_vars

\* no filter is applied and the kind does not accept an unfiltered listing
NeedsFilter(c) == c.filters = {} /\ None \notin c.allowed

\* C16: a collection with no filter applied whose kind does not accept an unfiltered
\* listing cannot be fetched: fetch, fetch(max), fetch_next_page and fetch_previous_page
\* fail with an invalid-argument error and no get_collection call is made.
C16_UnfilteredRefused ==
  NeedsFilter(fcol) =>
    /\ freqs = <<>> /\ fgot = 0 /\ fcol.data = <<>>
    /\ fpc # "returned"
    /\ fop.name \in {"fetch", "fetch_next_page", "fetch_previous_page"} => fpc = "raised"
    /\ fop.name = "fetch_max" => (fpc \in {"loop", "raised"} /\ fnpages = 0)

\* C16 witness: fetch(max=k) of such a collection has failed in its first turn.
C16_Witness ==
  /\ NeedsFilter(fcol)
  /\ fop.name = "fetch_max"
  /\ fpc = "raised"
  /\ fsrv > 0

\* C17 (as stated): a call that fails with an invalid-argument error leaves the object
\* as it was: fetch, update, delete of an entity, fetch by composite key, and fetch,
\* fetch(max) and fetch_next_page of a collection change no field (id, max, offset,
\* filters) when they fail so.
C17_NoPartialMutation ==
  [][/\ (op'.name \in {"fetch", "update", "delete"} /\ outcome' = "ValueError") => ent' = ent
     /\ (fop'.name \in {"fetch", "fetch_next_page"} /\ fpc' = "raised") => fcol' = fcol
     /\ (fop'.name = "fetch_max" /\ fpc' = "raised") =>
          (fcol'.offset = fop'.from /\ fcol' = fcol)
     /\ (fop'.name = "fetch_max" /\ fpc' = "loop" /\ FetchRefused(fcol)) => fcol' = fcol]_vars

\* C19: save(chunk=None) submits all elements of the collection in exactly one
\* post_collection call, uses no worker pool, and returns that call's result.
C19_SingleBulkCall ==
  (spc # "idle" /\ IsNone(sargs.chunk)) =>
    /\ spc = "returned"
    /\ Len(sres.posts) = 1
    /\ sres.posts[1].data = sdata
    /\ sres.ret = IF sres.posts[1].ok THEN "True" ELSE "False"
    /\ spool = NoPool

\* C19 witness: the 47 elements went out in one call, which the transport refused.
C19_Witness ==
  /\ spc = "returned"
  /\ IsNone(sargs.chunk)
  /\ Len(sdata) = BigLen
  /\ sres.ret = "False"

\* C20: save(chunk=x) with x neither None nor an integer fails with an
\* invalid-argument error, makes no transport call, dispatches no chunk, and leaves the
\* collection unchanged.
C20_InvalidChunkRefused ==
  [][(spc = "idle" /\ ~IsNone(sargs'.chunk) /\ ~IsInt(sargs'.chunk)) =>
       /\ spc' = "raised"
       /\ sres'.ret = "ValueError"
       /\ sres'.posts = <<>>
       /\ spool' = NoPool
       /\ sdata' = sdata]_vars

\* C20 witness: save(chunk='a') of a collection that holds elements has raised.
C20_Witness ==
  /\ spc = "raised"
  /\ sargs.chunk = <<"str">>
  /\ sres.ret = "ValueError"
  /\ Len(sdata) = MaxLen

\* the entity operation called is one its kind rejects by design
RejectedOp(e, o) ==
  \/ e.kind = "Role" /\ o.name \in {"save", "update", "delete"}
  \/ e.kind \in CompositeKinds /\ o.name = "update"

\* C21: the operations rejected by design (save/update/delete on Role, update on
\* RelationTerm, UserGroup and UserRole, save on ImageInstanceCollection,
\* ProjectCollection and UserJobCollection) fail with a not-implemented error in every
\* state and for every argument, make no transport call and change no state.
C21_RejectedByDesign ==
  [][/\ RejectedOp(ent, op') =>
          (outcome' = "NotImplementedError" /\ calls' = <<>> /\ ent' = ent)
     /\ (scls \in RejectedSave /\ spc' # "idle") =>
          /\ spc' = "raised"
          /\ sres' = [NoRes EXCEPT !.ret = "NotImplementedError"]
          /\ spool' = NoPool
          /\ sdata' = sdata]_vars

\* C21 witness: update with an id and attributes was rejected on a composite-key entity
\* that has been fetched, and save(chunk=None) was rejected on a collection with elements.
C21_Witness ==
  /\ ent.kind \in CompositeKinds
  /\ ent.id # None
  /\ op.name = "update" /\ op.id # None /\ op.attrs # None
  /\ outcome = "NotImplementedError"
  /\ scls \in RejectedSave
  /\ spc = "raised"
  /\ IsNone(sargs.chunk)
  /\ Len(sdata) = MaxLen

\* C22 (as stated): after populate(envelope) on any collection, plain or domain-scoped,
\* total equals envelope.size and total_pages equals total // max (floor division), or
\* exactly 1 when max is unset or zero.
C22_TotalsAfterPopulate ==
  freqs # <<>> =>
    /\ fcol.total = fsrv
    /\ fcol.total_pages = IF fcol.max = 0 THEN <<1>> ELSE <<fsrv \div fcol.max>>

\* the URI keeps the prefix 'domain/<ownerKind>/<ownerId>/'
HasDomainPrefix(uri) == Len(uri) >= 1 /\ uri[1] = "domain/"

\* C23 (as stated): for the same owner object, Property.uri() omits 'domain/' if and only
\* if PropertyCollection.uri() omits it, and for every owner that is not an annotation
\* both keep the prefix 'domain/<ownerKind>/<ownerId>/'.
C23_AnnotationFoldedAlike ==
  (prop # NoDom /\ pcol # NoDom) =>
    /\ HasDomainPrefix(Property_uri(prop)) <=> HasDomainPrefix(PropertyCollection_uri(pcol))
    /\ (~pown.annotation /\ pown.class_ # "annotation") =>
         /\ SubSeq(Property_uri(prop), 1, 5) = <<"domain/", pown.class_, "/", pown.id, "/">>
         /\ SubSeq(PropertyCollection_uri(pcol), 1, 5) = <<"domain/", pown.class_, "/", pown.id, "/">>

\* the item endpoint '.../property/<id>.json' of an id that is not None
AddressesItem(uri) ==
  /\ Len(uri) >= 4
  /\ SubSeq(uri, Len(uri) - 3, Len(uri) - 2) = <<"property", "/">>
  /\ uri[Len(uri) - 1] \in Ids
  /\ uri[Len(uri)] = ".json"

\* the by-key endpoint '.../key/<key>/property.json'
AddressesByKey(uri) ==
  /\ Len(uri) >= 5
  /\ uri[Len(uri) - 4] = "key/"
  /\ uri[Len(uri) - 3] # None
  /\ SubSeq(uri, Len(uri) - 2, Len(uri)) = <<"/", "property", ".json">>

\* C28 (as stated): whenever Property.fetch passes its validation and calls the
\* transport, the URI it addresses is the item endpoint of a non-null id or the by-key
\* endpoint; it never addresses the collection endpoint '.../property.json'.
C28_FetchNeverAddressesCollection ==
  (pop.name = "fetch" /\ pop.calls # <<>>) =>
    (AddressesItem(pop.uri) \/ AddressesByKey(pop.uri))

\* C29 (as stated): the by-key flag of a Property is false after every fetch(key=...)
\* call has ended, whether the transport succeeded or failed, so that every later save,
\* update, delete or fetch by id addresses the id-based URI and not the by-key URI.
C29_ByKeyOnlyDuringFetch ==
  /\ ~prop.by_key
  /\ (pop.name \in {"save", "update", "delete"} /\ pop.calls # <<>>) => ~AddressesByKey(pop.uri)

\* the pages of max resources that hold total resources
PagesNeeded(total, max) == (total + max - 1) \div max

\* C24 (as stated): fetch(max=k) with k > 0 terminates for every server total T >= 0 and
\* for every kind of collection, each transport call returning: its loop has ended by
\* the time it has fetched every page of the server's total, after at least the one
\* request that tells it the total.
C24_FetchMaxTerminates ==
  fpc = "loop" =>
    fnpages <= (IF PagesNeeded(fsrv, fcol.max) > 1 THEN PagesNeeded(fsrv, fcol.max) ELSE 1)

\* a step in which get_collection was called and has populated the collection
Populated ==
  \/ fpc = "loop" /\ fnpages' = fnpages + 1
  \/ fpc # "loop" /\ fpc' = "returned"

\* C25: populate builds one new element per entry of the envelope's array, in the order
\* of the array; without append mode the local sequence is then exactly those elements,
\* in append mode it is the previous sequence followed by them; the new elements of a
\* domain-scoped collection carry the owner of the collection.
C25_PopulateBuildsInOrder ==
  [][Populated =>
       LET req == freqs'[Len(freqs')]
           page == ServerPage(fsrv, req.offset, req.max)
           new == [i \in 1..Len(page) |->
                     [res |-> page[i],
                      object |-> IF fcol.kind = "domain" THEN fcol.object ELSE NoObject]]
       IN fcol'.data = IF req.append THEN fcol.data \o new ELSE new]_vars

\* C25 witness: a domain-scoped collection that held elements has appended a page of
\* two or more elements to them.
C25_Witness ==
  /\ fcol.kind = "domain"
  /\ fop.name = "fetch_next_page"
  /\ fpc = "returned"
  /\ freqs[1].append
  /\ fgot >= 2
  /\ Len(fcol.data) > fgot
  /\ \A i \in 1..Len(fcol.data) : fcol.data[i].object = FetchOwner

\* C26 (as stated): the offset sent with each page request lies between 0 and the last
\* known server total (the larger of the total known when the request is sent and the
\* total the server then reports is taken here), and fetch_next_page and
\* fetch_previous_page each make exactly one page request.
C26_OffsetWithinTotal ==
  /\ \A i \in 1..Len(freqs) :
       /\ 0 <= freqs[i].offset
       /\ freqs[i].offset <= (IF freqs[i].total > fsrv THEN freqs[i].total ELSE fsrv)
  /\ (fop.name \in {"fetch_next_page", "fetch_previous_page"} /\ fpc = "returned") =>
       Len(freqs) = 1

\* the URI of the unfiltered listing of the collection: uri(without_filters=True)
UnfilteredUri(c) ==
  (IF c.kind = "domain" THEN <<"domain/", c.object.class_, "/", c.object.id, "/">> ELSE <<>>)
    \o Collection_uri([kind |-> FetchKind, allowed |-> c.allowed, filters |-> FilterItems(c)],
                       TRUE).uri

\* C27 (as stated): a collection whose kind does not accept an unfiltered listing never
\* sends a get_collection request addressed to the unfiltered URI '<kind>.json', also
\* when the only filter set on it is not among the allowed filters.
C27_NoUnfilteredRequest ==
  None \notin fcol.allowed =>
    \A i \in 1..Len(freqs) : freqs[i].uri # UnfilteredUri(fcol)

\* C30 (as stated): the collection given by a + b or by a.filter(fn) is independent of
\* its operands: building it, and a later add_filter, insert, del or += on it, leave
\* the elements and the filters of a and of b as they were.
C30_ResultIndependent ==
  [][/\ qa' = qa
     /\ qb' = qb
     /\ qfil'.a = qfil.a
     /\ qfil'.b = qfil.b]_vars

====
